---------------------------- MODULE Spec2Model ----------------------------
(***************************************************************************)
(* The two-tier model cache of s3modelcache (src/app/s3modelcache/         *)
(* model_cache.py): a local cache directory and an S3 bucket, and the      *)
(* public operations cache_model_to_s3 (ensureCached), load_model_from_s3  *)
(* (materialize) and delete_cached_model (evict) of class S3ModelCache.    *)
(*                                                                         *)
(* One step of the model is one call the code makes to the outside world   *)
(* (boto3, huggingface_hub, tarfile, the filesystem) together with the     *)
(* Python code around it up to the next such call.  Every outside call     *)
(* ends in one of three ways: "ok", "ClientError" (the only exception      *)
(* class the code's handlers name) or "Exception" (any other error, e.g.   *)
(* OSError, a botocore connection error).  What the code does with each    *)
(* is read off its try/except blocks.                                      *)
(*                                                                         *)
(* Paths and keys are sequences of tokens; "/" is the separator token.     *)
(***************************************************************************)
EXTENDS Naturals, Sequences, FiniteSets

\* Number of regular files of the upstream artifact of a model.
NumFiles == 2

FileNames == <<"f1", "f2", "f3", "f4">>
Files == {FileNames[k] : k \in 1..NumFiles}

\* Relative path of artifact file f inside the model directory: the first
\* file lies at the top of the directory, the others in a subdirectory.
RelPath(f) == IF f = "f1" THEN <<f>> ELSE <<"d", "/", f>>

\* Model identifiers handed to the public API.
ModelIds == {<<"org", "/", "m">>, <<"x">>}
\* The identifier the sequential calls of Spec are made on.
ActiveIds == {<<"org", "/", "m">>}

\* The caller of Spec, and a second, concurrent one (none under Spec).
Callers == {1, 2}
SoloCallers == {1}

Outcomes == {"ok", "ClientError", "Exception"}

-----------------------------------------------------------------------------
(* Key mapper                                                              *)

\* model_id.replace('/', '_')
Sanitize(model_id) ==
    [k \in 1..Len(model_id) |-> IF model_id[k] = "/" THEN "_" ELSE model_id[k]]

\* self.s3_prefix, default "models/"
s3_prefix == <<"models", "/">>

\* Mutant of get_s3_key: the identifier goes into the key as it is.
get_s3_key_unsanitized(model_id) == s3_prefix \o model_id \o <<".tar.gz">>

get_s3_key(model_id) == s3_prefix \o Sanitize(model_id) \o <<".tar.gz">>

\* The name of the entry under local_cache_dir.
get_local_path(model_id) == Sanitize(model_id)

get_s3_prefix_for_dir(model_id) == s3_prefix \o Sanitize(model_id) \o <<"/">>

\* archive_path = local_cache_dir / f"{local_model_path.name}.tar.gz",
\* identified by the entry name it belongs to.
archive_path(model_id) == get_local_path(model_id)

Names == {get_local_path(i) : i \in ModelIds}

HasPrefix(key, prefix) ==
    /\ Len(key) >= Len(prefix)
    /\ SubSeq(key, 1, Len(prefix)) = prefix

StripPrefix(key, prefix) == SubSeq(key, Len(prefix) + 1, Len(key))

-----------------------------------------------------------------------------
(* Values                                                                  *)

\* The bytes of file f of the upstream artifact of model_id.
Bytes(model_id, f) == [of |-> model_id, file |-> f]

\* What snapshot_download writes on success: every file of the artifact.
Artifact(model_id) ==
    {[path |-> RelPath(f), data |-> Bytes(model_id, f)] : f \in Files}

NoDir == [dir |-> FALSE, files |-> {}]
Dir(files) == [dir |-> TRUE, files |-> files]

NoFile == [file |-> FALSE, members |-> {}]
ArchiveFile(members) == [file |-> TRUE, members |-> members]

VARIABLES
    root,              \* local_cache_dir exists
    main,              \* the command-line process of cache_model.py
    store_as_archive,  \* self.store_as_archive, fixed at construction
    local,             \* local_cache_dir: entry name -> directory (or none)
    tmp,               \* local_cache_dir: entry name -> <name>.tar.gz (or none)
    s3,                \* the bucket: a set of objects [key, body]
    call,              \* per caller: the running public call and its position
    prev               \* summary of the last call that ended

vars == <<root, main, store_as_archive, local, tmp, s3, call, prev>>

Keys == {o.key : o \in s3}
Object(key) == CHOOSE o \in s3 : o.key = key

\* upload_file / put: S3 overwrites the object at the key.
Put(bucket, key, body) ==
    {o \in bucket : o.key # key} \cup {[key |-> key, body |-> body]}

KeysUnder(prefix) == {k \in Keys : HasPrefix(k, prefix)}

\* The remote representation of model_id as the instance's mode defines it.
RemoteKeys(model_id) ==
    IF store_as_archive
    THEN {k \in Keys : k = get_s3_key(model_id)}
    ELSE KeysUnder(get_s3_prefix_for_dir(model_id))

RemoteExists(model_id) == RemoteKeys(model_id) # {}

-----------------------------------------------------------------------------
(* Calls                                                                   *)

Idle ==
    [op |-> "idle", model_id |-> <<>>, force_upload |-> FALSE,
     local |-> FALSE, s3 |-> FALSE, pc |-> "idle", result |-> "none",
     success |-> FALSE, deleted |-> FALSE, exc |-> FALSE,
     todo |-> {}, log |-> {}, failed |-> {},
     had_local |-> FALSE, had_remote |-> FALSE,
     source |-> "", value |-> <<>>]

NoPrev == [op |-> "idle", model_id |-> <<>>, force_upload |-> FALSE,
           result |-> "none", log |-> {}]

\* A call as it starts.  had_local and had_remote record, for the
\* properties, what the two tiers held for model_id at that moment.
Start(op, model_id, pc) ==
    [Idle EXCEPT !.op = op, !.model_id = model_id, !.pc = pc,
                 !.had_local = local[get_local_path(model_id)].dir,
                 !.had_remote = RemoteExists(model_id)]

\* No command-line process: the methods are called on an instance.
NoMain == [pc |-> "none", env |-> <<>>, exit |-> "none", log |-> {}]

\* An instance after __init__: the cache root has been made.
Init ==
    /\ root = TRUE
    /\ main = NoMain
    /\ store_as_archive \in BOOLEAN
    /\ local = [n \in Names |-> NoDir]
    /\ tmp = [n \in Names |-> NoFile]
    /\ s3 = {}
    /\ call = [c \in Callers |-> Idle]
    /\ prev = NoPrev

\* The call of c after an outside call `what` that ended with outcome o.
Logged(c, what, o) ==
    [call[c] EXCEPT !.log = @ \cup {what},
                    !.failed = IF o = "ok" THEN @ ELSE @ \cup {what}]

\* An exception leaves the public method: the call ends by raising.
Raised(rec) == [rec EXCEPT !.pc = "done", !.result = "raise"]
Returned(rec, value) == [rec EXCEPT !.pc = "done", !.result = value]
Goto(rec, pc) == [rec EXCEPT !.pc = pc]

-----------------------------------------------------------------------------
(* Object Store Gateway: what the helpers answer for an outcome            *)

\* _model_exists_in_s3: head_object; every ClientError reads as "absent".
model_exists_in_s3(s3_key, o) == o = "ok" /\ s3_key \in Keys

\* _model_dir_exists_in_s3: KeyCount > 0 for the prefix (no handler).
model_dir_exists_in_s3(model_id) ==
    KeysUnder(get_s3_prefix_for_dir(model_id)) # {}

\* The existence probe both public methods start with, for outcome o:
\* "raise" when the error leaves the helper, else what the helper returns.
ProbeAnswer(model_id, o) ==
    IF store_as_archive
    THEN IF o = "Exception" THEN "raise"
         ELSE IF model_exists_in_s3(get_s3_key(model_id), o)
              THEN "present" ELSE "absent"
    ELSE IF o # "ok" THEN "raise"
         ELSE IF model_dir_exists_in_s3(model_id) THEN "present" ELSE "absent"

ProbeCall == IF store_as_archive THEN "head_object" ELSE "list_objects_v2"

-----------------------------------------------------------------------------
(* cache_model_to_s3                                                       *)

\* Mutant of FirstStep: the probe is made whether the call is forced or not.
FirstStepAlwaysProbe(force_upload) == "probe"

\* `not force_upload and ...`: a forced call makes no probe.
FirstStep(force_upload) == IF force_upload THEN "local" ELSE "probe"

Call_cache_model_to_s3(c) ==
    /\ call[c].pc = "idle"
    /\ \E id \in ActiveIds, force \in BOOLEAN :
         call' = [call EXCEPT ![c] =
                    [Start("cache_model_to_s3", id, FirstStep(force))
                       EXCEPT !.force_upload = force]]
    /\ UNCHANGED <<root, main, store_as_archive, local, tmp, s3, prev>>

\* Where the fast path leads for each answer of the probe.
FastPath(rec, answer) ==
    CASE answer = "raise" -> Raised(rec)
      [] answer = "present" -> Returned(rec, "true")
      [] OTHER -> Goto(rec, "local")

CacheProbe(c) ==
    /\ call[c].op = "cache_model_to_s3"
    /\ call[c].pc = "probe"
    /\ \E o \in Outcomes :
         call' = [call EXCEPT ![c] =
                    FastPath(Logged(c, ProbeCall, o),
                             ProbeAnswer(call[c].model_id, o))]
    /\ UNCHANGED <<root, main, store_as_archive, local, tmp, s3, prev>>

\* The upload step for the mode, entered with the local entry in place.
UploadStage(rec, files) ==
    IF store_as_archive
    THEN Goto(rec, "compress")
    ELSE [rec EXCEPT !.pc = "upload_dir", !.todo = files]

\* Mutant of Cleanup: the cleanup leaves the bucket alone.
CleanupLocalOnly(rec) ==
    [rec EXCEPT !.local = TRUE, !.s3 = FALSE, !.deleted = FALSE,
                !.pc = "delete_local"]

\* self.delete_cached_model(model_id, local=True, s3=True)
Cleanup(rec) ==
    [rec EXCEPT !.local = TRUE, !.s3 = TRUE, !.deleted = FALSE,
                !.pc = "delete_local"]

\* What a failed snapshot_download may leave at local_dir: nothing, or a
\* directory holding some but not all of the files.
PartialFetch(model_id) ==
    {NoDir} \cup {Dir(fs) : fs \in (SUBSET Artifact(model_id)) \ {Artifact(model_id)}}

\* Mutant of Fetch: snapshot_download is called whether the local entry
\* exists or not.
FetchAlways(c) ==
    /\ call[c].op = "cache_model_to_s3"
    /\ call[c].pc = "local"
    /\ LET id == call[c].model_id
           n == get_local_path(id)
       IN \E o \in {"ok", "Exception"} :
            IF o = "ok"
            THEN /\ local' = [local EXCEPT ![n] = Dir(Artifact(id))]
                 /\ call' = [call EXCEPT ![c] =
                               UploadStage(Logged(c, "snapshot_download", o),
                                           Artifact(id))]
            ELSE \E left \in PartialFetch(id) :
                 /\ local' = [local EXCEPT ![n] = left]
                 /\ call' = [call EXCEPT ![c] =
                               Cleanup(Logged(c, "snapshot_download", o))]
    /\ UNCHANGED <<root, main, store_as_archive, tmp, s3, prev>>

Fetch(c) ==
    /\ call[c].op = "cache_model_to_s3"
    /\ call[c].pc = "local"
    /\ LET id == call[c].model_id
           n == get_local_path(id)
       IN IF local[n].dir
          THEN /\ call' = [call EXCEPT ![c] = UploadStage(call[c], local[n].files)]
               /\ UNCHANGED local
          ELSE \E o \in {"ok", "Exception"} :
                 IF o = "ok"
                 THEN /\ local' = [local EXCEPT ![n] = Dir(Artifact(id))]
                      /\ call' = [call EXCEPT ![c] =
                                    UploadStage(Logged(c, "snapshot_download", o),
                                                Artifact(id))]
                 ELSE \E left \in PartialFetch(id) :
                      /\ local' = [local EXCEPT ![n] = left]
                      /\ call' = [call EXCEPT ![c] =
                                    Cleanup(Logged(c, "snapshot_download", o))]
    /\ UNCHANGED <<root, main, store_as_archive, tmp, s3, prev>>

\* Mutant of Members: arcname is the relative path alone, without
\* model_path.name in front.
MembersWithoutTop(top, files) ==
    {[path |-> e.path, data |-> e.data] : e \in files}

\* _compress_model: one member per regular file, named
\* model_path.name / file_path.relative_to(model_path).
Members(top, files) ==
    {[path |-> top \o <<"/">> \o e.path, data |-> e.data] : e \in files}

Compress(c) ==
    /\ call[c].op = "cache_model_to_s3"
    /\ call[c].pc = "compress"
    /\ LET n == get_local_path(call[c].model_id)
           a == archive_path(call[c].model_id)
           all == Members(n, local[n].files)
       IN \E o \in {"ok", "Exception"} :
            IF o = "ok"
            THEN /\ tmp' = [tmp EXCEPT ![a] = ArchiveFile(all)]
                 /\ call' = [call EXCEPT ![c] = Goto(Logged(c, "compress", o), "upload")]
            ELSE \E some \in (SUBSET all) \ {all} :
                 /\ tmp' = [tmp EXCEPT ![a] = ArchiveFile(some)]
                 /\ call' = [call EXCEPT ![c] = Raised(Logged(c, "compress", o))]
    /\ UNCHANGED <<root, main, store_as_archive, local, s3, prev>>

\* After _upload_to_s3 returned `success`: clean up on failure, then unlink.
AfterUpload(rec, success) ==
    IF success
    THEN [rec EXCEPT !.success = TRUE, !.pc = "unlink"]
    ELSE Cleanup([rec EXCEPT !.success = FALSE])

Upload(c) ==
    /\ call[c].op = "cache_model_to_s3"
    /\ call[c].pc = "upload"
    /\ LET a == archive_path(call[c].model_id)
           key == get_s3_key(call[c].model_id)
       IN \E o \in Outcomes :
            /\ o = "ok" => tmp[a].file
            /\ s3' = IF o = "ok" THEN Put(s3, key, tmp[a].members) ELSE s3
            /\ call' = [call EXCEPT ![c] =
                          IF o = "Exception"
                          THEN Raised(Logged(c, "upload_file", o))
                          ELSE AfterUpload(Logged(c, "upload_file", o), o = "ok")]
    /\ UNCHANGED <<root, main, store_as_archive, local, tmp, prev>>

\* Mutant of AfterFileUpload: no break; the loop goes on after a ClientError.
AfterFileUploadNoBreak(rec, o, rest) ==
    CASE o = "Exception" -> Raised(rec)
      [] OTHER -> [rec EXCEPT !.todo = rest]

\* _upload_dir_to_s3: one upload_file per regular file; break on ClientError.
AfterFileUpload(rec, o, rest) ==
    CASE o = "Exception" -> Raised(rec)
      [] o = "ClientError" -> Cleanup([rec EXCEPT !.success = FALSE])
      [] OTHER -> [rec EXCEPT !.todo = rest]

UploadDirFile(c) ==
    /\ call[c].op = "cache_model_to_s3"
    /\ call[c].pc = "upload_dir"
    /\ LET prefix == get_s3_prefix_for_dir(call[c].model_id)
       IN \E e \in call[c].todo, o \in Outcomes :
            /\ o = "ok" => e \in local[get_local_path(call[c].model_id)].files
            /\ s3' = IF o = "ok" THEN Put(s3, prefix \o e.path, e.data) ELSE s3
            /\ call' = [call EXCEPT ![c] =
                          AfterFileUpload(Logged(c, "upload_file", o), o,
                                          call[c].todo \ {e})]
    /\ UNCHANGED <<root, main, store_as_archive, local, tmp, prev>>

\* The loop of _upload_dir_to_s3 has run out of files: success stays True.
UploadDirDone(c) ==
    /\ call[c].op = "cache_model_to_s3"
    /\ call[c].pc = "upload_dir"
    /\ call[c].todo = {}
    /\ call' = [call EXCEPT ![c] = Returned([call[c] EXCEPT !.success = TRUE], "true")]
    /\ UNCHANGED <<root, main, store_as_archive, local, tmp, s3, prev>>

-----------------------------------------------------------------------------
(* delete_cached_model, as a public call and as the cleanup of a failed    *)
(* cache_model_to_s3                                                       *)

Call_delete_cached_model(c) ==
    /\ call[c].pc = "idle"
    /\ \E id \in ActiveIds, l \in BOOLEAN, r \in BOOLEAN :
         call' = [call EXCEPT ![c] =
                    [Start("delete_cached_model", id, "delete_local")
                       EXCEPT !.local = l, !.s3 = r]]
    /\ UNCHANGED <<root, main, store_as_archive, local, tmp, s3, prev>>

\* delete_cached_model returns rec.deleted to its caller: the public call
\* returns it; cache_model_to_s3 then returns False (after the unlink of the
\* archive when the upload of the archive is what failed).
DeleteReturns(rec) ==
    CASE rec.op = "delete_cached_model" ->
           Returned(rec, IF rec.deleted THEN "true" ELSE "false")
      [] rec.op = "cache_model_to_s3" /\ "upload_file" \in rec.log /\ store_as_archive ->
           Goto(rec, "unlink")
      [] OTHER -> Returned(rec, "false")

\* Mutant of AfterDeleteLocal: the bucket is cleaned whether asked or not.
AfterDeleteLocalThenRemote(rec) == Goto(rec, "delete_s3")

AfterDeleteLocal(rec) == IF rec.s3 THEN Goto(rec, "delete_s3") ELSE DeleteReturns(rec)

\* What shutil.rmtree(..., ignore_errors=True) may leave when it fails: the
\* directory with any of its files.
RmtreeLeaves(entry, o) ==
    IF o = "ok" THEN {NoDir} ELSE {Dir(fs) : fs \in SUBSET entry.files}

DeleteLocal(c) ==
    /\ call[c].pc = "delete_local"
    /\ get_local_path(call[c].model_id) \in Names
    /\ LET n == get_local_path(call[c].model_id)
       IN IF call[c].local /\ local[n].dir
          THEN \E o \in {"ok", "Exception"} :
               \E left \in RmtreeLeaves(local[n], o) :
                 /\ local' = [local EXCEPT ![n] = left]
                 /\ call' = [call EXCEPT ![c] =
                               AfterDeleteLocal([Logged(c, "rmtree", o)
                                                   EXCEPT !.deleted = TRUE])]
          ELSE /\ call' = [call EXCEPT ![c] = AfterDeleteLocal(call[c])]
               /\ UNCHANGED local
    /\ UNCHANGED <<root, main, store_as_archive, tmp, s3, prev>>

\* Archive mode: delete_object; ClientError is logged, the flag stays.
AfterDeleteObject(rec, o) ==
    CASE o = "Exception" -> Raised(rec)
      [] o = "ClientError" -> DeleteReturns(rec)
      [] OTHER -> DeleteReturns([rec EXCEPT !.deleted = TRUE])

DeleteObject(c) ==
    /\ call[c].pc = "delete_s3"
    /\ store_as_archive
    /\ LET key == get_s3_key(call[c].model_id)
       IN \E o \in Outcomes :
            /\ s3' = IF o = "ok" THEN {x \in s3 : x.key # key} ELSE s3
            /\ call' = [call EXCEPT ![c] =
                          AfterDeleteObject(Logged(c, "delete_object", o), o)]
    /\ UNCHANGED <<root, main, store_as_archive, local, tmp, prev>>

\* Mutant of AfterDeleteListing: only one key of the listing is collected.
AfterDeleteListingOneKey(rec, o, to_delete) ==
    IF o # "ok" THEN Raised(rec)
    ELSE IF to_delete = {} THEN DeleteReturns(rec)
    ELSE [rec EXCEPT !.pc = "delete_objects",
                     !.todo = {CHOOSE k \in to_delete : TRUE}]

\* Directory mode: the paginated listing of the prefix (no handler), then
\* `if to_delete:`.
AfterDeleteListing(rec, o, to_delete) ==
    IF o # "ok" THEN Raised(rec)
    ELSE IF to_delete = {} THEN DeleteReturns(rec)
    ELSE [rec EXCEPT !.pc = "delete_objects", !.todo = to_delete]

DeleteListing(c) ==
    /\ call[c].pc = "delete_s3"
    /\ ~store_as_archive
    /\ \E o \in Outcomes :
         call' = [call EXCEPT ![c] =
                    AfterDeleteListing(Logged(c, "list_objects_v2", o), o,
                        KeysUnder(get_s3_prefix_for_dir(call[c].model_id)))]
    /\ UNCHANGED <<root, main, store_as_archive, local, tmp, s3, prev>>

DeleteObjects(c) ==
    /\ call[c].pc = "delete_objects"
    /\ \E o \in Outcomes :
         /\ s3' = IF o = "ok" THEN {x \in s3 : x.key \notin call[c].todo} ELSE s3
         /\ call' = [call EXCEPT ![c] =
                       AfterDeleteObject(Logged(c, "delete_objects", o), o)]
    /\ UNCHANGED <<root, main, store_as_archive, local, tmp, prev>>

-----------------------------------------------------------------------------
(* archive_path.unlink(missing_ok=True), in cache_model_to_s3 and in the   *)
(* finally block of load_model_from_s3                                     *)

\* What the public method does once the unlink has been made: the finally
\* block of load_model_from_s3 re-raises a pending extraction error.
AfterUnlink(rec) ==
    CASE rec.exc -> Raised(rec)
      [] rec.op = "cache_model_to_s3" ->
           Returned(rec, IF rec.success THEN "true" ELSE "false")
      [] OTHER -> Returned(rec, "path")

\* The unlink of a file the process wrote into its own cache root is taken
\* to succeed; missing_ok=True makes it a no-op when there is no file.
Unlink(c) ==
    /\ call[c].pc = "unlink"
    /\ tmp' = [tmp EXCEPT ![archive_path(call[c].model_id)] = NoFile]
    /\ call' = [call EXCEPT ![c] = AfterUnlink(Logged(c, "unlink", "ok"))]
    /\ UNCHANGED <<root, main, store_as_archive, local, s3, prev>>

-----------------------------------------------------------------------------
(* load_model_from_s3                                                      *)

Call_load_model_from_s3(c) ==
    /\ call[c].pc = "idle"
    /\ \E id \in ActiveIds :
         call' = [call EXCEPT ![c] =
                    Start("load_model_from_s3", id, "exists")]
    /\ UNCHANGED <<root, main, store_as_archive, local, tmp, s3, prev>>

\* Mutant of LocalHit: the remote store is asked before the local entry
\* is trusted.
LocalHitProbesFirst(rec, entry) == Goto(rec, "probe")

\* `if local_model_path.exists(): return local_model_path`
LocalHit(rec, entry) ==
    IF entry.dir THEN Returned(rec, "path") ELSE Goto(rec, "probe")

LoadLocal(c) ==
    /\ call[c].op = "load_model_from_s3"
    /\ call[c].pc = "exists"
    /\ call' = [call EXCEPT ![c] =
                  LocalHit(call[c], local[get_local_path(call[c].model_id)])]
    /\ UNCHANGED <<root, main, store_as_archive, local, tmp, s3, prev>>

\* Where load_model_from_s3 goes for each answer of the probe.
LoadFound(rec, answer) ==
    CASE answer = "raise" -> Raised(rec)
      [] answer = "absent" -> Returned(rec, "none")
      [] OTHER -> Goto(rec, IF store_as_archive THEN "download" ELSE "download_dir")

LoadProbe(c) ==
    /\ call[c].op = "load_model_from_s3"
    /\ call[c].pc = "probe"
    /\ \E o \in Outcomes :
         call' = [call EXCEPT ![c] =
                    LoadFound(Logged(c, ProbeCall, o),
                              ProbeAnswer(call[c].model_id, o))]
    /\ UNCHANGED <<root, main, store_as_archive, local, tmp, s3, prev>>

\* `if not self._download_from_s3(...): return None`
AfterDownload(rec, o) ==
    CASE o = "Exception" -> Raised(rec)
      [] o = "ClientError" -> Returned(rec, "none")
      [] OTHER -> Goto(rec, "extract")

\* download_file writes the destination only when the transfer completes.
Download(c) ==
    /\ call[c].op = "load_model_from_s3"
    /\ call[c].pc = "download"
    /\ LET a == archive_path(call[c].model_id)
           key == get_s3_key(call[c].model_id)
       IN \E o \in Outcomes :
            /\ o = "ok" => key \in Keys
            /\ tmp' = IF o = "ok"
                      THEN [tmp EXCEPT ![a] = ArchiveFile(Object(key).body)]
                      ELSE tmp
            /\ call' = [call EXCEPT ![c] =
                          AfterDownload(Logged(c, "download_file", o), o)]
    /\ UNCHANGED <<root, main, store_as_archive, local, s3, prev>>

\* _extract_model: every member is written below extract_dir.parent, at its
\* own name; the entry of name n receives the members whose first segment
\* is n.
Extracted(entry, n, members) ==
    LET mine == {m \in members : HasPrefix(m.path, n \o <<"/">>)}
    IN IF mine = {} THEN entry
       ELSE Dir(entry.files \cup
                {[path |-> StripPrefix(m.path, n \o <<"/">>), data |-> m.data] : m \in mine})

Extract(c) ==
    /\ call[c].op = "load_model_from_s3"
    /\ call[c].pc = "extract"
    /\ LET a == archive_path(call[c].model_id)
           all == tmp[a].members
       IN \E o \in {"ok", "Exception"} :
          \E done \in (IF o = "ok" THEN {all} ELSE ((SUBSET all) \ {all}) \cup {{}}) :
            /\ o = "ok" => tmp[a].file
            /\ local' = [n \in Names |-> Extracted(local[n], n, done)]
            /\ call' = [call EXCEPT ![c] =
                          [Logged(c, "extract", o)
                             EXCEPT !.pc = "unlink", !.exc = (o # "ok")]]
    /\ UNCHANGED <<root, main, store_as_archive, tmp, s3, prev>>

\* _download_dir_from_s3 up to its first page: local_dir.mkdir(parents=True,
\* exist_ok=True), then the listing of the prefix (no handler).
DownloadDirList(c) ==
    /\ call[c].op = "load_model_from_s3"
    /\ call[c].pc = "download_dir"
    /\ LET id == call[c].model_id
           n == get_local_path(id)
       IN \E o \in Outcomes :
            /\ local' = [local EXCEPT ![n] = Dir(local[n].files)]
            /\ call' = [call EXCEPT ![c] =
                          IF o # "ok"
                          THEN Raised(Logged(c, "list_objects_v2", o))
                          ELSE [Logged(c, "list_objects_v2", o)
                                  EXCEPT !.pc = "download_file", !.success = FALSE,
                                         !.todo = KeysUnder(get_s3_prefix_for_dir(id))]]
    /\ UNCHANGED <<root, main, store_as_archive, tmp, s3, prev>>

\* One pass of the loop body of _download_dir_from_s3 for outcome o.
AfterFileDownload(rec, o, rest) ==
    CASE o = "Exception" -> Raised(rec)
      [] o = "ClientError" -> Returned(rec, "none")
      [] OTHER -> [rec EXCEPT !.success = TRUE, !.todo = rest]

DownloadDirFile(c) ==
    /\ call[c].op = "load_model_from_s3"
    /\ call[c].pc = "download_file"
    /\ LET id == call[c].model_id
           n == get_local_path(id)
           prefix == get_s3_prefix_for_dir(id)
       IN \E key \in call[c].todo, o \in Outcomes :
            /\ o = "ok" => key \in Keys
            /\ local' = IF o = "ok"
                        THEN [local EXCEPT ![n] =
                                Dir(@.files \cup {[path |-> StripPrefix(key, prefix),
                                                   data |-> Object(key).body]})]
                        ELSE local
            /\ call' = [call EXCEPT ![c] =
                          AfterFileDownload(Logged(c, "download_file", o), o,
                                            call[c].todo \ {key})]
    /\ UNCHANGED <<root, main, store_as_archive, tmp, s3, prev>>

\* The listing is exhausted: `return success`, then
\* `if not self._download_dir_from_s3(...): return None`.
DownloadDirDone(c) ==
    /\ call[c].op = "load_model_from_s3"
    /\ call[c].pc = "download_file"
    /\ call[c].todo = {}
    /\ call' = [call EXCEPT ![c] =
                  Returned(call[c], IF call[c].success THEN "path" ELSE "none")]
    /\ UNCHANGED <<root, main, store_as_archive, local, tmp, s3, prev>>

-----------------------------------------------------------------------------
(* The caller gets the result; the next call may start                     *)

\* What is remembered of the call that ended: how it was made, how it
\* ended, and whether it fetched and whether it uploaded.
Summary(rec) ==
    [op |-> rec.op, model_id |-> rec.model_id, force_upload |-> rec.force_upload,
     result |-> rec.result,
     log |-> rec.log \cap {"snapshot_download", "upload_file"}]

Return(c) ==
    /\ call[c].pc = "done"
    /\ prev' = Summary(call[c])
    /\ call' = [call EXCEPT ![c] = Idle]
    /\ UNCHANGED <<root, main, store_as_archive, local, tmp, s3>>

Step(c) ==
    \/ Call_cache_model_to_s3(c)
    \/ CacheProbe(c)
    \/ Fetch(c)
    \/ Compress(c)
    \/ Upload(c)
    \/ UploadDirFile(c)
    \/ UploadDirDone(c)
    \/ Call_delete_cached_model(c)
    \/ DeleteLocal(c)
    \/ DeleteObject(c)
    \/ DeleteListing(c)
    \/ DeleteObjects(c)
    \/ Unlink(c)
    \/ Call_load_model_from_s3(c)
    \/ LoadLocal(c)
    \/ LoadProbe(c)
    \/ Download(c)
    \/ Extract(c)
    \/ DownloadDirList(c)
    \/ DownloadDirFile(c)
    \/ DownloadDirDone(c)
    \/ Return(c)

Next == \E c \in SoloCallers : Step(c)

Spec == Init /\ [][Next]_vars

-----------------------------------------------------------------------------
(* The helpers and utilities called directly, as the unit tests call them  *)

\* Relative paths of a directory tree, one to three levels deep.
TreePaths == {<<"w">>, <<"d", "/", "w">>, <<"d", "/", "e", "/", "w">>}
Blobs == {"b0", "b1"}

\* The directory trees of regular files over TreePaths: at most one file at
\* a path.
Trees ==
    {t \in SUBSET [path : TreePaths, data : Blobs] :
        \A e1, e2 \in t : e1.path = e2.path => e1 = e2}

\* Objects a bucket may hold: archives of two models, a file that is no
\* archive, an object one level down whose name ends in ".tar.gz", and an
\* archive outside the configured prefix.
SampleKeys ==
    {<<"models", "/", "a_model", ".tar.gz">>,
     <<"models", "/", "b_model", ".tar.gz">>,
     <<"models", "/", "notes.txt">>,
     <<"models", "/", "org_m", "/", "w", ".tar.gz">>,
     <<"other", "/", "c_model", ".tar.gz">>}

SampleObjects == {[key |-> k, body |-> {}] : k \in SampleKeys}

\* What the cache root and the bucket may hold when a helper is called:
\* either a cache root with entries of any tree and an empty bucket, or a
\* cache root with empty entries and archives lying about and a bucket
\* with any of the sample objects.
InitHelpers ==
    /\ root = TRUE
    /\ main = NoMain
    /\ store_as_archive \in BOOLEAN
    /\ \/ /\ local \in [Names -> {NoDir} \cup {Dir(t) : t \in Trees}]
          /\ \E n \in Names : local[n] = NoDir
          /\ tmp = [n \in Names |-> NoFile]
          /\ s3 = {}
       \/ /\ local \in [Names -> {NoDir, Dir({})}]
          /\ tmp \in [Names -> {NoFile, ArchiveFile({})}]
          /\ s3 \in SUBSET SampleObjects
    /\ call = [c \in Callers |-> Idle]
    /\ prev = NoPrev

\* test_compress_and_extract_roundtrip: _compress_model of the entry of an
\* id into the cache root, then _extract_model of that archive.  The source
\* tree is kept in todo.
Call_compress_and_extract(c) ==
    /\ call[c].pc = "idle"
    /\ \E id \in ModelIds :
         /\ local[get_local_path(id)].dir
         /\ call' = [call EXCEPT ![c] =
                       [Start("compress_and_extract", id, "compress")
                          EXCEPT !.todo = local[get_local_path(id)].files]]
    /\ UNCHANGED <<root, main, store_as_archive, local, tmp, s3, prev>>

CodecCompress(c) ==
    /\ call[c].op = "compress_and_extract"
    /\ call[c].pc = "compress"
    /\ LET n == get_local_path(call[c].model_id)
           a == archive_path(call[c].model_id)
           all == Members(n, local[n].files)
       IN \E o \in {"ok", "Exception"} :
            IF o = "ok"
            THEN /\ tmp' = [tmp EXCEPT ![a] = ArchiveFile(all)]
                 /\ call' = [call EXCEPT ![c] = Goto(Logged(c, "compress", o), "clear")]
            ELSE \E some \in (SUBSET all) \ {all} :
                 /\ tmp' = [tmp EXCEPT ![a] = ArchiveFile(some)]
                 /\ call' = [call EXCEPT ![c] = Raised(Logged(c, "compress", o))]
    /\ UNCHANGED <<root, main, store_as_archive, local, s3, prev>>

\* The archive is extracted where no entry of its name lies, as
\* load_model_from_s3 does (it extracts only when the entry is absent).
CodecClear(c) ==
    /\ call[c].op = "compress_and_extract"
    /\ call[c].pc = "clear"
    /\ local' = [local EXCEPT ![get_local_path(call[c].model_id)] = NoDir]
    /\ call' = [call EXCEPT ![c] = Goto(call[c], "extract")]
    /\ UNCHANGED <<root, main, store_as_archive, tmp, s3, prev>>

CodecExtract(c) ==
    /\ call[c].op = "compress_and_extract"
    /\ call[c].pc = "extract"
    /\ LET all == tmp[archive_path(call[c].model_id)].members
       IN \E o \in {"ok", "Exception"} :
          \E done \in (IF o = "ok" THEN {all} ELSE (SUBSET all) \ {all}) :
            /\ local' = [n \in Names |-> Extracted(local[n], n, done)]
            /\ call' = [call EXCEPT ![c] =
                          IF o = "ok"
                          THEN Returned(Logged(c, "extract", o), "path")
                          ELSE Raised(Logged(c, "extract", o))]
    /\ UNCHANGED <<root, main, store_as_archive, tmp, s3, prev>>

\* Longest identifier, in tokens, handed to the key mapper.
MaxIdLen == 3

IdTokens == {"a", "/", "_"}

\* Identifiers with any number of separators at any place.
SampleIds == UNION {[1..k -> IdTokens] : k \in 1..MaxIdLen}

\* test_key_and_path_generation: the three functions of the key mapper,
\* applied to one identifier.
Call_key_mapper(c) ==
    /\ call[c].pc = "idle"
    /\ \E id \in SampleIds :
         call' = [call EXCEPT ![c] =
                    [Idle EXCEPT !.op = "key_mapper", !.model_id = id,
                                 !.pc = "done", !.result = "keys",
                                 !.value = [local_path |-> get_local_path(id),
                                            s3_key |-> get_s3_key(id),
                                            dir_prefix |-> get_s3_prefix_for_dir(id)]]]
    /\ UNCHANGED <<root, main, store_as_archive, local, tmp, s3, prev>>

\* Values of the parameter `source` of list_cached_models.
Sources == {"local", "LOCAL", "Local", "s3", "S3", "remote", ""}

\* source.lower()
Lower(source) ==
    CASE source \in {"LOCAL", "Local"} -> "local"
      [] source = "S3" -> "s3"
      [] OTHER -> source

\* Mutant of SourceKind: a source that is not known counts as "local".
SourceKindDefaultLocal(source) ==
    IF Lower(source) = "s3" THEN "s3" ELSE "local"

\* The branch list_cached_models takes for a source.
SourceKind(source) ==
    IF Lower(source) \in {"local", "s3"} THEN Lower(source) ELSE "invalid"

\* The children of the cache root: the entries, which are directories, and
\* the archives <name>.tar.gz, which are plain files.
CacheRootEntries ==
    {[name |-> n, is_dir |-> TRUE] : n \in {m \in Names : local[m].dir}}
    \cup {[name |-> n \o <<".tar.gz">>, is_dir |-> FALSE] :
             n \in {m \in Names : tmp[m].file}}

\* A returned list is kept up to its order: a function that gives, for each
\* name in the list, how often it stands there.

\* Mutant of list_local: every child of the cache root is listed.
list_local_all_children ==
    [name \in {e.name : e \in CacheRootEntries} |-> 1]

\* [p.name for p in self.local_cache_dir.iterdir() if p.is_dir()]
list_local ==
    [name \in {e.name : e \in {x \in CacheRootEntries : x.is_dir}} |-> 1]

\* Mutant of IsArchiveKey: every listed key counts as an archive.
IsAnyKey(key) == TRUE

\* key.endswith(".tar.gz")
IsArchiveKey(key) == Len(key) >= 1 /\ key[Len(key)] = ".tar.gz"

\* key[len(self.s3_prefix):-7]
ArchiveName(key) == SubSeq(key, Len(s3_prefix) + 1, Len(key) - 1)

\* rest.split("/", 1)[0]
FirstSegment(rest) ==
    LET at == {k \in 1..Len(rest) : rest[k] = "/"}
    IN IF at = {} THEN rest
       ELSE SubSeq(rest, 1, (CHOOSE k \in at : \A j \in at : k <= j) - 1)

\* The loop of list_cached_models over every page of the listing of
\* s3_prefix: one append per archive key (archive mode), one per first
\* path segment not yet in the list (directory mode).
list_s3 ==
    LET listed == KeysUnder(s3_prefix)
    IN IF store_as_archive
       THEN LET hits == {k \in listed : IsArchiveKey(k)}
            IN [name \in {ArchiveName(k) : k \in hits} |->
                  Cardinality({k \in hits : ArchiveName(k) = name})]
       ELSE [name \in {FirstSegment(StripPrefix(k, s3_prefix)) :
                         k \in {x \in listed : StripPrefix(x, s3_prefix) # <<>>}}
                     \ {<<>>} |-> 1]

Call_list_cached_models(c) ==
    /\ call[c].pc = "idle"
    /\ \E source \in Sources :
         call' = [call EXCEPT ![c] =
                    [Idle EXCEPT !.op = "list_cached_models",
                                 !.source = source, !.pc = "list"]]
    /\ UNCHANGED <<root, main, store_as_archive, local, tmp, s3, prev>>

\* The body of list_cached_models; the paginated listing has no handler.
ListCachedModels(c) ==
    /\ call[c].op = "list_cached_models"
    /\ call[c].pc = "list"
    /\ LET kind == SourceKind(call[c].source)
       IN CASE kind = "local" ->
                 call' = [call EXCEPT ![c] =
                            Returned([call[c] EXCEPT !.value = list_local], "list")]
            [] kind = "s3" ->
                 \E o \in Outcomes :
                   call' = [call EXCEPT ![c] =
                              IF o = "ok"
                              THEN Returned([Logged(c, "list_objects_v2", o)
                                               EXCEPT !.value = list_s3], "list")
                              ELSE Raised(Logged(c, "list_objects_v2", o))]
            [] OTHER ->
                 call' = [call EXCEPT ![c] = Returned(call[c], "ValueError")]
    /\ UNCHANGED <<root, main, store_as_archive, local, tmp, s3, prev>>

\* upload_large_model_to_hcp(cache, model_id) of upload_large.py, called
\* on an instance in archive mode.
Call_upload_large_model_to_hcp(c) ==
    /\ call[c].pc = "idle"
    /\ store_as_archive
    /\ \E id \in ModelIds :
         call' = [call EXCEPT ![c] =
                    Start("upload_large_model_to_hcp", id, "archive")]
    /\ UNCHANGED <<root, main, store_as_archive, local, tmp, s3, prev>>

\* `if not archive_path.exists(): cache._compress_model(...)`, before the
\* try block: an error of the compression leaves the function.
LargeCompress(c) ==
    /\ call[c].op = "upload_large_model_to_hcp"
    /\ call[c].pc = "archive"
    /\ LET n == get_local_path(call[c].model_id)
           a == archive_path(call[c].model_id)
           all == Members(n, local[n].files)
       IN IF tmp[a].file
          THEN /\ call' = [call EXCEPT ![c] = Goto(call[c], "client")]
               /\ UNCHANGED tmp
          ELSE \E o \in {"ok", "Exception"} :
               \E written \in (IF o = "ok" THEN {all}
                               ELSE ((SUBSET all) \ {all}) \cup {{}}) :
                 /\ tmp' = [tmp EXCEPT ![a] = ArchiveFile(written)]
                 /\ call' = [call EXCEPT ![c] =
                               IF o = "ok"
                               THEN Goto(Logged(c, "compress", o), "client")
                               ELSE Raised(Logged(c, "compress", o))]
    /\ UNCHANGED <<root, main, store_as_archive, local, s3, prev>>

\* The credentials read off cache.s3_client and boto3.client(...), before
\* the try block as well.
LargeClient(c) ==
    /\ call[c].op = "upload_large_model_to_hcp"
    /\ call[c].pc = "client"
    /\ \E o \in {"ok", "Exception"} :
         call' = [call EXCEPT ![c] =
                    IF o = "ok"
                    THEN Goto(Logged(c, "client", o), "upload")
                    ELSE Raised(Logged(c, "client", o))]
    /\ UNCHANGED <<root, main, store_as_archive, local, tmp, s3, prev>>

\* try: upload_file; return True / except Exception: return False.  The
\* value to return is kept in success until the finally block has run.
LargeUpload(c) ==
    /\ call[c].op = "upload_large_model_to_hcp"
    /\ call[c].pc = "upload"
    /\ LET a == archive_path(call[c].model_id)
           key == get_s3_key(call[c].model_id)
       IN \E o \in Outcomes :
            /\ s3' = IF o = "ok" THEN Put(s3, key, tmp[a].members) ELSE s3
            /\ call' = [call EXCEPT ![c] =
                          [Logged(c, "upload_file", o)
                             EXCEPT !.success = (o = "ok"), !.pc = "finally"]]
    /\ UNCHANGED <<root, main, store_as_archive, local, tmp, prev>>

\* finally: if archive_path.exists(): archive_path.unlink()
LargeFinally(c) ==
    /\ call[c].op = "upload_large_model_to_hcp"
    /\ call[c].pc = "finally"
    /\ tmp' = [tmp EXCEPT ![archive_path(call[c].model_id)] = NoFile]
    /\ call' = [call EXCEPT ![c] =
                  Returned(Logged(c, "unlink", "ok"),
                           IF call[c].success THEN "true" ELSE "false")]
    /\ UNCHANGED <<root, main, store_as_archive, local, s3, prev>>

\* Longest prefix string, in tokens, an instance is configured with.
MaxPrefixLen == 3

\* Prefix strings: empty, with separators inside, with several at the end.
SamplePrefixes == UNION {[1..k -> {"p", "/"}] : k \in 0..MaxPrefixLen}

\* s3_prefix.rstrip("/"): the string up to its last token that is no "/".
RStrip(prefix) ==
    SubSeq(prefix, 1,
           CHOOSE k \in 0..Len(prefix) :
              /\ \A j \in (k + 1)..Len(prefix) : prefix[j] = "/"
              /\ k > 0 => prefix[k] # "/")

\* self.s3_prefix = s3_prefix.rstrip("/") + "/"
normalize_prefix(prefix) == RStrip(prefix) \o <<"/">>

\* S3ModelCache(..., s3_prefix=prefix) over the cache root: the prefix is
\* normalized and local_cache_dir.mkdir(exist_ok=True) makes the root; an
\* error of mkdir or of head_bucket leaves __init__.
Call_construct(c) ==
    /\ call[c].pc = "idle"
    /\ \E prefix \in SamplePrefixes, made \in {"ok", "Exception"}, o \in Outcomes :
         /\ made = "Exception" => ~root
         /\ root' = (root \/ made = "ok")
         /\ call' = [call EXCEPT ![c] =
                       [Idle EXCEPT !.op = "construct", !.pc = "done",
                                    !.source = prefix,
                                    !.result = IF made = "ok" /\ o = "ok"
                                               THEN "instance" ELSE "raise",
                                    !.value = [s3_prefix |-> normalize_prefix(prefix)]]]
    /\ UNCHANGED <<main, store_as_archive, local, tmp, s3, prev>>

\* The identifier whose local path is the cache root: the empty string.
RootIds == {id \in {<<>>} \cup ModelIds : get_local_path(id) = <<>>}

\* delete_cached_model(model_id, local=True) for such an identifier.
Call_delete_local(c) ==
    /\ call[c].pc = "idle"
    /\ \E id \in RootIds :
         call' = [call EXCEPT ![c] =
                    [Idle EXCEPT !.op = "delete_cached_model", !.model_id = id,
                                 !.pc = "delete_local", !.local = TRUE]]
    /\ UNCHANGED <<root, main, store_as_archive, local, tmp, s3, prev>>

\* delete_cached_model for an identifier whose local path,
\* local_cache_dir / "", is the cache root itself: rmtree removes the root
\* with everything in it; when it fails, any of its children may be gone.
DeleteLocalRoot(c) ==
    /\ call[c].pc = "delete_local"
    /\ get_local_path(call[c].model_id) = <<>>
    /\ IF call[c].local /\ root
       THEN \E o \in {"ok", "Exception"} :
              /\ root' = (o # "ok")
              /\ local' \in IF o = "ok" THEN {[n \in Names |-> NoDir]}
                            ELSE [Names -> {NoDir} \cup {local[n] : n \in Names}]
              /\ \A n \in Names : local'[n] \in {NoDir, local[n]}
              /\ tmp' \in IF o = "ok" THEN {[n \in Names |-> NoFile]}
                          ELSE [Names -> {NoFile} \cup {tmp[n] : n \in Names}]
              /\ \A n \in Names : tmp'[n] \in {NoFile, tmp[n]}
              /\ call' = [call EXCEPT ![c] =
                            AfterDeleteLocal([Logged(c, "rmtree", o)
                                                EXCEPT !.deleted = TRUE])]
       ELSE /\ call' = [call EXCEPT ![c] = AfterDeleteLocal(call[c])]
            /\ UNCHANGED <<root, local, tmp>>
    /\ UNCHANGED <<main, store_as_archive, s3, prev>>

\* The caller of a helper has its result.
HelperReturn(c) ==
    /\ call[c].pc = "done"
    /\ call' = [call EXCEPT ![c] = Idle]
    /\ UNCHANGED <<root, main, store_as_archive, local, tmp, s3, prev>>

HelperStep(c) ==
    \/ Call_compress_and_extract(c)
    \/ CodecCompress(c)
    \/ CodecClear(c)
    \/ CodecExtract(c)
    \/ Call_key_mapper(c)
    \/ Call_list_cached_models(c)
    \/ ListCachedModels(c)
    \/ HelperReturn(c)

NextHelpers == \E c \in SoloCallers : HelperStep(c)

SpecHelpers == InitHelpers /\ [][NextHelpers]_vars

\* upload_large_model_to_hcp called, any number of times, on an instance in
\* archive mode.
LargeStep(c) ==
    \/ Call_upload_large_model_to_hcp(c)
    \/ LargeCompress(c)
    \/ LargeClient(c)
    \/ LargeUpload(c)
    \/ LargeFinally(c)
    \/ HelperReturn(c)

NextLarge == \E c \in SoloCallers : LargeStep(c)

SpecLarge == InitHelpers /\ [][NextLarge]_vars

\* Instances built over the cache root with any prefix, and
\* delete_cached_model called with the empty identifier.
ConfigStep(c) ==
    \/ Call_construct(c)
    \/ Call_delete_local(c)
    \/ DeleteLocalRoot(c)
    \/ HelperReturn(c)

NextConfig == \E c \in SoloCallers : ConfigStep(c)

SpecConfig == InitHelpers /\ [][NextConfig]_vars

-----------------------------------------------------------------------------
(* Two callers at once on one cache root and one bucket: one call each of  *)
(* cache_model_to_s3 or load_model_from_s3, their outside calls            *)
(* interleaved.  Writing the archive and sending it take time, so each is  *)
(* two steps here: a second caller may act between its start and its end.  *)

\* The remote representation cache_model_to_s3 leaves for model_id after a
\* run without failure.
Stored(model_id) ==
    IF store_as_archive
    THEN {[key |-> get_s3_key(model_id),
           body |-> Members(get_local_path(model_id), Artifact(model_id))]}
    ELSE {[key |-> get_s3_prefix_for_dir(model_id) \o e.path, body |-> e.data] :
             e \in Artifact(model_id)}

InitRace ==
    /\ root = TRUE
    /\ main = NoMain
    /\ store_as_archive \in BOOLEAN
    /\ local = [n \in Names |-> NoDir]
    /\ tmp = [n \in Names |-> NoFile]
    /\ s3 \in {{}} \cup {Stored(id) : id \in ActiveIds}
    /\ call = [c \in Callers |-> Idle]
    /\ prev = NoPrev

\* _compress_model, its first line: tarfile.open(archive_path, "w:gz")
\* creates the archive or truncates the one lying there.
CompressBegins(c) ==
    /\ call[c].op = "cache_model_to_s3"
    /\ call[c].pc = "compress"
    /\ tmp' = [tmp EXCEPT ![archive_path(call[c].model_id)] = ArchiveFile({})]
    /\ call' = [call EXCEPT ![c] = Goto(call[c], "compressing")]
    /\ UNCHANGED <<root, main, store_as_archive, local, s3, prev>>

\* _compress_model, its loop and the close of the archive.  The members go
\* to the file opened before: when that file has been unlinked meanwhile,
\* nothing lies at archive_path afterwards.
CompressEnds(c) ==
    /\ call[c].op = "cache_model_to_s3"
    /\ call[c].pc = "compressing"
    /\ LET n == get_local_path(call[c].model_id)
           a == archive_path(call[c].model_id)
           all == Members(n, local[n].files)
       IN \E o \in {"ok", "Exception"} :
          \E written \in (IF o = "ok" THEN {all} ELSE (SUBSET all) \ {all}) :
            /\ tmp' = IF tmp[a].file
                      THEN [tmp EXCEPT ![a] = ArchiveFile(written)]
                      ELSE tmp
            /\ call' = [call EXCEPT ![c] =
                          IF o = "ok"
                          THEN Goto(Logged(c, "compress", o), "upload")
                          ELSE Raised(Logged(c, "compress", o))]
    /\ UNCHANGED <<root, main, store_as_archive, local, s3, prev>>

\* upload_file starts: it reads what lies at archive_path at this moment
\* (kept in value); with no file there it raises an error that is not a
\* ClientError before the store is reached.
UploadBegins(c) ==
    /\ call[c].op = "cache_model_to_s3"
    /\ call[c].pc = "upload"
    /\ LET a == archive_path(call[c].model_id)
       IN call' = [call EXCEPT ![c] =
                     IF tmp[a].file
                     THEN [call[c] EXCEPT !.pc = "uploading",
                                          !.value = tmp[a].members]
                     ELSE Raised(Logged(c, "upload_file", "Exception"))]
    /\ UNCHANGED <<root, main, store_as_archive, local, tmp, s3, prev>>

\* upload_file ends: the object is put when the transfer completes.
UploadEnds(c) ==
    /\ call[c].op = "cache_model_to_s3"
    /\ call[c].pc = "uploading"
    /\ LET key == get_s3_key(call[c].model_id)
       IN \E o \in Outcomes :
            /\ s3' = IF o = "ok" THEN Put(s3, key, call[c].value) ELSE s3
            /\ call' = [call EXCEPT ![c] =
                          IF o = "Exception"
                          THEN Raised(Logged(c, "upload_file", o))
                          ELSE AfterUpload(Logged(c, "upload_file", o), o = "ok")]
    /\ UNCHANGED <<root, main, store_as_archive, local, tmp, prev>>

\* The caller has its result and makes no further call.
RaceReturn(c) ==
    /\ call[c].pc = "done"
    /\ call' = [call EXCEPT ![c] = Goto(call[c], "returned")]
    /\ UNCHANGED <<root, main, store_as_archive, local, tmp, s3, prev>>

RaceStep(c) ==
    \/ Call_cache_model_to_s3(c)
    \/ CacheProbe(c)
    \/ Fetch(c)
    \/ CompressBegins(c)
    \/ CompressEnds(c)
    \/ UploadBegins(c)
    \/ UploadEnds(c)
    \/ UploadDirFile(c)
    \/ UploadDirDone(c)
    \/ DeleteLocal(c)
    \/ DeleteObject(c)
    \/ DeleteListing(c)
    \/ DeleteObjects(c)
    \/ Unlink(c)
    \/ Call_load_model_from_s3(c)
    \/ LoadLocal(c)
    \/ LoadProbe(c)
    \/ Download(c)
    \/ Extract(c)
    \/ DownloadDirList(c)
    \/ DownloadDirFile(c)
    \/ DownloadDirDone(c)
    \/ RaceReturn(c)

NextRace == \E c \in Callers : RaceStep(c)

SpecRace == InitRace /\ [][NextRace]_vars

-----------------------------------------------------------------------------
(* The command-line wrapper: main() of app/cache_model.py and of           *)
(* cache_model.py, run as `sys.exit(main())`                               *)

\* What os.getenv gives for a variable: None, the empty string, a value.
EnvValues == {"unset", "", "set"}

MandatoryVars ==
    {"S3_BUCKET", "S3_ENDPOINT", "S3_ACCESS_KEY_ID", "S3_SECRET_ACCESS_KEY"}

EnvVars == {"MODEL_ID"} \cup MandatoryVars

\* `not value`: true of None and of the empty string.
Unset(value) == value \in {"unset", ""}

\* The process starts in a fresh working directory: no cache root yet.
InitCli ==
    /\ root = FALSE
    /\ main \in [pc : {"start"}, env : [EnvVars -> EnvValues],
                 exit : {"none"}, log : {{}}]
    /\ store_as_archive \in BOOLEAN
    /\ local = [n \in Names |-> NoDir]
    /\ tmp = [n \in Names |-> NoFile]
    /\ s3 = {}
    /\ call = [c \in Callers |-> Idle]
    /\ prev = NoPrev

Exit(code) == [main EXCEPT !.pc = "exited", !.exit = code]

\* The two checks of main() before anything is built: `if not model_id`,
\* `if not bucket or not endpoint or not access_key or not secret_key`.
MainEnv ==
    /\ main.pc = "start"
    /\ main' = IF Unset(main.env["MODEL_ID"]) THEN Exit("1")
               ELSE IF \E v \in MandatoryVars : Unset(main.env[v]) THEN Exit("1")
               ELSE [main EXCEPT !.pc = "construct"]
    /\ UNCHANGED <<root, store_as_archive, local, tmp, s3, call, prev>>

\* S3ModelCache(...): local_cache_dir.mkdir(exist_ok=True), then
\* head_bucket, whose ClientError is raised again.  An exception leaves
\* main(): the interpreter ends with status 1.
MainConstruct ==
    /\ main.pc = "construct"
    /\ \E made \in {"ok", "Exception"}, o \in Outcomes :
         /\ root' = (made = "ok")
         /\ main' = IF made # "ok"
                    THEN [Exit("1") EXCEPT !.log = @ \cup {"mkdir"}]
                    ELSE IF o # "ok"
                    THEN [Exit("1") EXCEPT !.log = @ \cup {"mkdir", "head_bucket"}]
                    ELSE [main EXCEPT !.pc = "call",
                                      !.log = @ \cup {"mkdir", "head_bucket"}]
    /\ UNCHANGED <<store_as_archive, local, tmp, s3, call, prev>>

\* success = cache.cache_model_to_s3(model_id)
MainCall ==
    /\ main.pc = "call"
    /\ \E id \in ActiveIds :
         call' = [call EXCEPT ![1] =
                    Start("cache_model_to_s3", id, FirstStep(FALSE))]
    /\ main' = [main EXCEPT !.pc = "wait"]
    /\ UNCHANGED <<root, store_as_archive, local, tmp, s3, prev>>

\* Mutant of ExitCode: the status is 0 whatever cache_model_to_s3 gave.
ExitCodeZero(result) == "0"

\* `if not success: return 1`, else `return 0`; an exception that leaves
\* cache_model_to_s3 leaves main() too, and the status is 1.
ExitCode(result) == IF result = "true" THEN "0" ELSE "1"

MainExit ==
    /\ main.pc = "wait"
    /\ call[1].pc = "done"
    /\ main' = Exit(ExitCode(call[1].result))
    /\ UNCHANGED <<root, store_as_archive, local, tmp, s3, call, prev>>

\* The steps of the call main() makes.
CliStep(c) ==
    \/ CacheProbe(c)
    \/ Fetch(c)
    \/ Compress(c)
    \/ Upload(c)
    \/ UploadDirFile(c)
    \/ UploadDirDone(c)
    \/ DeleteLocal(c)
    \/ DeleteObject(c)
    \/ DeleteListing(c)
    \/ DeleteObjects(c)
    \/ Unlink(c)

NextCli ==
    \/ MainEnv
    \/ MainConstruct
    \/ MainCall
    \/ MainExit
    \/ \E c \in SoloCallers : CliStep(c)

SpecCli == InitCli /\ [][NextCli]_vars

-----------------------------------------------------------------------------
(* Properties                                                              *)

\* The call of the sequential caller.
cur == call[1]
curName == get_local_path(cur.model_id)

Ended(op) == cur.op = op /\ cur.pc = "done"

\* The calls a cleanup makes to remove something.
RemovalCalls == {"rmtree", "delete_object", "delete_objects", "list_objects_v2"}

\* The remote representation holds every regular file of the artifact.
RemoteComplete(model_id) ==
    IF store_as_archive
    THEN /\ get_s3_key(model_id) \in Keys
         /\ Object(get_s3_key(model_id)).body =
              Members(get_local_path(model_id), Artifact(model_id))
    ELSE {[key |-> get_s3_prefix_for_dir(model_id) \o e.path, body |-> e.data] :
             e \in Artifact(model_id)}
         = {o \in s3 : HasPrefix(o.key, get_s3_prefix_for_dir(model_id))}

\* The calls by which cache_model_to_s3 fetches, compresses, uploads or
\* deletes.
WorkCalls ==
    {"snapshot_download", "compress", "upload_file",
     "rmtree", "delete_object", "delete_objects"}

\* C1: fast path, in its part "must not re-download or re-upload".  A call
\* cache_model_to_s3(id, force_upload=False) made while the remote
\* representation of id exists ends without having invoked the fetcher,
\* compressed, uploaded or deleted anything.
C1_FastPath ==
    (Ended("cache_model_to_s3") /\ ~cur.force_upload /\ cur.had_remote)
    => cur.log \cap WorkCalls = {}

\* C2: idempotence, in the reading most favourable to it (the first call
\* returned True, the second returned a value).  Of two consecutive unforced
\* calls for the same id, at most one fetches and at most one uploads.
C2_TwiceInARow ==
    (/\ Ended("cache_model_to_s3") /\ ~cur.force_upload
     /\ prev.op = "cache_model_to_s3" /\ ~prev.force_upload
     /\ prev.model_id = cur.model_id /\ prev.result = "true"
     /\ cur.result # "raise")
    => /\ ~("snapshot_download" \in prev.log /\ "snapshot_download" \in cur.log)
       /\ ~("upload_file" \in prev.log /\ "upload_file" \in cur.log)

\* A call of cache_model_to_s3 whose upload failed and which returned False.
UploadFailedReturnedFalse ==
    /\ Ended("cache_model_to_s3")
    /\ "upload_file" \in cur.failed
    /\ cur.result = "false"

NothingLeft(model_id) ==
    /\ ~local[get_local_path(model_id)].dir
    /\ ~RemoteExists(model_id)

C4_FetcherFailure ==
    (Ended("cache_model_to_s3") /\ "snapshot_download" \in cur.failed)
    => /\ cur.result = "false"
       /\ cur.log \cap {"compress", "upload_file"} = {}

\* C5: whenever cache_model_to_s3 returns True, the remote representation of
\* id exists and holds every regular file of the artifact.
C5_SuccessImpliesComplete ==
    (Ended("cache_model_to_s3") /\ cur.result = "true")
    => RemoteComplete(cur.model_id)

\* C6: after a failed cache_model_to_s3(id), the next unforced
\* cache_model_to_s3(id) does not return True from the fast path on an
\* incomplete remote representation, and the next load_model_from_s3(id) does
\* not return the path of an incomplete local directory.
C6_FailureNotMistaken ==
    (prev.op = "cache_model_to_s3" /\ prev.result # "true"
       /\ cur.pc = "done" /\ cur.model_id = prev.model_id)
    => /\ ~(/\ cur.op = "cache_model_to_s3" /\ ~cur.force_upload
            /\ cur.result = "true" /\ cur.log = {ProbeCall}
            /\ ~RemoteComplete(cur.model_id))
       /\ ~(/\ cur.op = "load_model_from_s3" /\ cur.result = "path"
            /\ local[curName].files # Artifact(cur.model_id))

\* The tiers of model_id agree: both hold it or neither does.
BothOrAbsent(model_id) ==
    local[get_local_path(model_id)].dir <=> RemoteExists(model_id)

\* C7: a call of any of the three operations made while id is in state
\* both or absent leaves id in state both or absent when it ends, whether it
\* succeeded or failed.
C7_BothOrAbsent ==
    (cur.pc = "done" /\ (cur.had_local <=> cur.had_remote))
    => BothOrAbsent(cur.model_id)

\* C8: a call load_model_from_s3(id) made while the local entry of id exists
\* returns the local path in its first step, having made no outside call at
\* all, and changes neither the local cache nor the bucket.
C8_LocalHit ==
    [][(cur.op = "load_model_from_s3" /\ cur.pc = "exists" /\ local[curName].dir)
       => /\ call'[1].pc = "done"
          /\ call'[1].result = "path"
          /\ call'[1].log = {}
          /\ local' = local /\ tmp' = tmp /\ s3' = s3]_vars

\* Witness of C8: a local hit while the bucket holds nothing for id.
C8_Witness ==
    /\ Ended("load_model_from_s3")
    /\ cur.result = "path"
    /\ cur.log = {}
    /\ local[curName].dir
    /\ ~RemoteExists(cur.model_id)

\* C9: load_model_from_s3(id) with no local entry and no remote
\* representation returns None from the probe and changes nothing.
C9_NotFound ==
    [][(cur.op = "load_model_from_s3" /\ cur.pc = "probe"
          /\ ~local[curName].dir /\ ~RemoteExists(cur.model_id))
       => /\ call'[1].pc = "done"
          /\ call'[1].result = "none"
          /\ "download_file" \notin call'[1].log
          /\ local' = local /\ tmp' = tmp /\ s3' = s3]_vars

\* C10: in archive mode, once load_model_from_s3(id) has got as far as the
\* download and has ended, however it ended, no <name>.tar.gz is left in the
\* cache root.
C10_LoadRemovesArchive ==
    (/\ Ended("load_model_from_s3") /\ store_as_archive
     /\ "download_file" \in cur.log)
    => ~tmp[archive_path(cur.model_id)].file


\* C11: in archive mode, once cache_model_to_s3(id) has started to write the
\* temporary archive (it is past the fast path and the fetch) and has ended,
\* however it ended, no <name>.tar.gz is left in the cache root.
C11_CacheRemovesArchive ==
    (/\ Ended("cache_model_to_s3") /\ store_as_archive
     /\ "compress" \in cur.log)
    => ~tmp[archive_path(cur.model_id)].file


\* C12: codec round trip.  For every tree of regular files, whatever the
\* depth of its files, _compress_model followed by _extract_model puts
\* exactly the files of the tree, at the same relative paths and with the
\* same contents, under the source directory's own name below the parent of
\* the destination; the archive holds exactly one member per regular file.
C12_CodecRoundTrip ==
    (Ended("compress_and_extract") /\ cur.result = "path")
    => /\ local[curName].files = cur.todo
       /\ Cardinality(tmp[archive_path(cur.model_id)].members)
            = Cardinality(cur.todo)
       /\ {m.path : m \in tmp[archive_path(cur.model_id)].members}
            = {curName \o <<"/">> \o e.path : e \in cur.todo}

\* Witness of C12: a tree with a file at each of the three depths has made
\* the round trip.
C12_Witness ==
    /\ Ended("compress_and_extract") /\ cur.result = "path"
    /\ {e.path : e \in cur.todo} = TreePaths
    /\ local[curName].files = cur.todo


\* C13: for every identifier the three functions of the key mapper use one
\* and the same sanitized name: the identifier with every "/" replaced by
\* "_" and nothing else changed, which holds no "/".  The local path is that
\* name under the cache root, the archive key is prefix + name + ".tar.gz",
\* the directory prefix is prefix + name + "/".
C13_KeyMapper ==
    Ended("key_mapper")
    => LET id == cur.model_id
           name == cur.value.local_path
       IN /\ Len(name) = Len(id)
          /\ \A k \in 1..Len(id) :
               /\ id[k] = "/" => name[k] = "_"
               /\ id[k] # "/" => name[k] = id[k]
          /\ \A k \in 1..Len(name) : name[k] # "/"
          /\ cur.value.s3_key = s3_prefix \o name \o <<".tar.gz">>
          /\ cur.value.dir_prefix = s3_prefix \o name \o <<"/">>

\* Witness of C13: an identifier with two separators.
C13_Witness ==
    /\ Ended("key_mapper")
    /\ cur.model_id = <<"/", "a", "/">>
    /\ cur.value.local_path = <<"_", "a", "_">>
    /\ cur.value.s3_key = <<"models", "/", "_", "a", "_", ".tar.gz">>


\* A call list_cached_models(source) has returned a list.
Listed(kind) ==
    /\ Ended("list_cached_models")
    /\ cur.source \in kind
    /\ cur.result = "list"

\* C14: in archive mode list_cached_models("s3") returns one name for each
\* object under the configured prefix whose key ends in ".tar.gz", namely
\* the key without the prefix and without ".tar.gz"; other objects give no
\* name, and no name stands twice in the list.
C14_RemoteListing ==
    (Listed({"s3", "S3"}) /\ store_as_archive)
    => /\ DOMAIN cur.value =
            {SubSeq(o.key, 3, Len(o.key) - 1) :
               o \in {x \in s3 : /\ Len(x.key) >= 3
                                 /\ SubSeq(x.key, 1, 2) = <<"models", "/">>
                                 /\ x.key[Len(x.key)] = ".tar.gz"}}
       /\ \A name \in DOMAIN cur.value : cur.value[name] = 1

\* Witness of C14: the bucket holds the two archives, a file that is no
\* archive and an archive outside the prefix; exactly the two are listed.
C14_Witness ==
    /\ Listed({"s3", "S3"}) /\ store_as_archive
    /\ {o.key : o \in s3} =
         {<<"models", "/", "a_model", ".tar.gz">>,
          <<"models", "/", "b_model", ".tar.gz">>,
          <<"models", "/", "notes.txt">>,
          <<"other", "/", "c_model", ".tar.gz">>}
    /\ DOMAIN cur.value = {<<"a_model">>, <<"b_model">>}

\* C15: list_cached_models("local") returns exactly the names of the
\* directories that lie directly in the cache root, each once, one per
\* local entry; no plain file of the cache root, such as an archive
\* <name>.tar.gz, is returned.
C15_LocalListing ==
    Listed({"local", "LOCAL", "Local"})
    => /\ DOMAIN cur.value = {n \in Names : local[n].dir}
       /\ \A name \in DOMAIN cur.value : cur.value[name] = 1
       /\ \A n \in Names : (n \o <<".tar.gz">>) \notin DOMAIN cur.value

\* Witness of C15: an entry and an archive lie in the cache root; the entry
\* is listed.
C15_Witness ==
    /\ Listed({"local", "LOCAL", "Local"})
    /\ \E n \in Names : local[n].dir /\ tmp[n].file
    /\ \E n \in Names : ~local[n].dir
    /\ DOMAIN cur.value = {n \in Names : local[n].dir}

\* C16: list_cached_models with a source that is, whatever its case,
\* neither "local" nor "s3" raises ValueError, having made no outside call,
\* and changes neither the cache root nor the bucket.
C16_InvalidSource ==
    [][(/\ cur.op = "list_cached_models" /\ cur.pc = "list"
        /\ cur.source \notin {"local", "LOCAL", "Local", "s3", "S3"})
       => /\ call'[1].pc = "done"
          /\ call'[1].result = "ValueError"
          /\ call'[1].log = {}
          /\ local' = local /\ tmp' = tmp /\ s3' = s3]_vars

\* Witness of C16: ValueError for the source "remote" over a bucket and a
\* cache root that hold something.
C16_Witness ==
    /\ Ended("list_cached_models")
    /\ cur.source = "remote"
    /\ cur.result = "ValueError"
    /\ cur.log = {}
    /\ s3 # {}
    /\ \E n \in Names : local[n].dir


\* A requested deletion of the call that ended removed what was there when
\* the call was made.
RemovedLocal == cur.local /\ cur.had_local /\ ~local[curName].dir
RemovedRemote == cur.s3 /\ cur.had_remote /\ ~RemoteExists(cur.model_id)

\* C17: delete_cached_model(id, local, s3), when it returns, returns True
\* if and only if one of the deletions asked for removed something that was
\* there before the call; for an id cached in neither tier it returns False.
C17_EvictResult ==
    (Ended("delete_cached_model") /\ cur.result # "raise")
    => (cur.result = "true" <=> (RemovedLocal \/ RemovedRemote))

\* The frame of delete_cached_model: with local=True, s3=False no outside
\* call but rmtree is made and the bucket stays as it is; with local=False,
\* s3=True in archive mode the one outside call is delete_object, nothing but
\* the object at the archive key of id leaves the bucket, and the cache root
\* stays as it is.
EvictFrame ==
    /\ [](/\ (Ended("delete_cached_model") /\ cur.local /\ ~cur.s3)
               => cur.log \subseteq {"rmtree"}
          /\ (Ended("delete_cached_model") /\ ~cur.local /\ cur.s3
                /\ store_as_archive)
               => cur.log = {"delete_object"})
    /\ [][/\ (cur.op = "delete_cached_model" /\ cur.local /\ ~cur.s3)
               => s3' = s3
          /\ (cur.op = "delete_cached_model" /\ ~cur.local /\ cur.s3
                /\ store_as_archive)
               => /\ local' = local /\ tmp' = tmp
                  /\ s3' \subseteq s3
                  /\ \A o \in s3 \ s3' : o.key = get_s3_key(cur.model_id)]_vars

EmptyListingIsNoOp ==
    (/\ Ended("delete_cached_model") /\ ~store_as_archive /\ cur.s3
     /\ ~cur.had_remote /\ "list_objects_v2" \in cur.log \ cur.failed)
    => /\ "delete_objects" \notin cur.log
       /\ cur.result = IF "rmtree" \in cur.log THEN "true" ELSE "false"

C20_DirectoryComplete ==
    (/\ Ended("cache_model_to_s3") /\ ~store_as_archive
     /\ cur.result = "true" /\ local[curName].dir)
    => {o \in s3 : HasPrefix(o.key, get_s3_prefix_for_dir(cur.model_id))}
         = {[key |-> get_s3_prefix_for_dir(cur.model_id) \o e.path,
             body |-> e.data] : e \in local[curName].files}


\* C21: every call of cache_model_to_s3, load_model_from_s3 and
\* delete_cached_model ends by returning a value, whatever outside call
\* failed in it; none ends by an exception leaving the method.
C21_DefiniteOutcome ==
    (cur.pc = "done"
       /\ cur.op \in {"cache_model_to_s3", "load_model_from_s3",
                      "delete_cached_model"})
    => cur.result # "raise"


\* The two callers have their results.
BothReturned == \A c \in Callers : call[c].pc = "returned"

\* Caller c missed the fast path, uploaded, and got True.
Uploaded(c) ==
    /\ call[c].op = "cache_model_to_s3"
    /\ call[c].result = "true"
    /\ "upload_file" \in call[c].log

\* The state both tiers are in after one cache_model_to_s3(id) without
\* failure.
Converged(model_id) ==
    /\ local[get_local_path(model_id)] = Dir(Artifact(model_id))
    /\ {o \in s3 : o.key \in RemoteKeys(model_id)} = Stored(model_id)

\* C22: when two concurrent calls cache_model_to_s3(id) both missed the
\* fast path, both uploaded and both returned True, the local entry and the
\* remote representation of id are, once both have returned, what one call
\* alone leaves, whichever upload ended last.
C22_RacingWritersConverge ==
    (BothReturned /\ \A c \in Callers : Uploaded(c))
    => \A c \in Callers : Converged(call[c].model_id)


\* The files the remote representation of model_id holds, as entries of the
\* local directory of model_id.
RemoteFiles(model_id) ==
    LET n == get_local_path(model_id)
        prefix == get_s3_prefix_for_dir(model_id)
    IN IF store_as_archive
       THEN UNION {{[path |-> StripPrefix(m.path, n \o <<"/">>), data |-> m.data] :
                      m \in o.body} : o \in {x \in s3 : x.key = get_s3_key(model_id)}}
       ELSE {[path |-> StripPrefix(o.key, prefix), data |-> o.body] :
               o \in {x \in s3 : HasPrefix(x.key, prefix)}}

\* Caller c has got a path from load_model_from_s3.
GotPath(c) ==
    /\ call[c].op = "load_model_from_s3"
    /\ call[c].pc \in {"done", "returned"}
    /\ call[c].result = "path"

\* The entry a caller got the path of holds every file of the remote
\* representation.
ReturnedEntryComplete ==
    \A c \in Callers :
       GotPath(c) =>
          /\ local[get_local_path(call[c].model_id)].dir
          /\ RemoteFiles(call[c].model_id)
               \subseteq local[get_local_path(call[c].model_id)].files

\* The entry a caller got the path of is written by no step but the rmtree
\* of delete_cached_model.
ReturnedEntryImmutable ==
    \A c \in Callers :
       (GotPath(c) /\ local'[get_local_path(call[c].model_id)]
                        # local[get_local_path(call[c].model_id)])
       => \E d \in Callers : /\ call[d].pc = "delete_local"
                             /\ "rmtree" \in call'[d].log

\* C23: whenever load_model_from_s3(id) has returned a path, with another
\* call running or not, the entry at that path holds every file of the
\* remote representation of id, and from then on no step other than the
\* removal of the entry writes to it.
C23_ReturnedEntryComplete ==
    []ReturnedEntryComplete /\ [][ReturnedEntryImmutable]_vars


\* C24: when upload_large_model_to_hcp(cache, id) has ended, by returning
\* True or False or by an error of the compression or of the preparation
\* of the client, no archive of id lies in the cache root.
C24_LargeRemovesArchive ==
    (cur.op = "upload_large_model_to_hcp" /\ cur.pc = "done")
    => ~tmp[archive_path(cur.model_id)].file


\* C25, in the part it spells out: upload_large_model_to_hcp ends a failed
\* transfer as the archive upload step of cache_model_to_s3 does, which
\* runs delete_cached_model(model_id, local=True, s3=True) before it returns
\* False.  When upload_large_model_to_hcp(cache, id) has returned False,
\* neither the local entry of id nor the archive object of id exists.
C25_LargeKeepsContract ==
    (cur.op = "upload_large_model_to_hcp" /\ cur.pc = "done"
       /\ cur.result = "false")
    => /\ ~local[get_local_path(cur.model_id)].dir
       /\ get_s3_key(cur.model_id) \notin Keys


\* cache_model_to_s3, called by main(), has returned `value`.
CacheReturned(value) ==
    /\ cur.op = "cache_model_to_s3"
    /\ cur.pc = "done"
    /\ cur.result = value

\* C26: the run of cache_model.py ends with status 0 exactly when
\* cache_model_to_s3 returned True; it ends with status 1 when MODEL_ID or
\* one of the four S3 settings is missing and when cache_model_to_s3
\* returned False; and with one of the four settings missing no instance is
\* built and no call to the filesystem or to the store is made.
C26_CommandLine ==
    /\ main.pc = "exited" =>
         /\ main.exit = "0" <=> CacheReturned("true")
         /\ (\E v \in EnvVars : Unset(main.env[v])) => main.exit = "1"
         /\ CacheReturned("false") => main.exit = "1"
    /\ (main.pc # "none" /\ \E v \in MandatoryVars : Unset(main.env[v])) =>
         /\ main.pc \in {"start", "exited"}
         /\ main.log = {} /\ cur = Idle
         /\ ~root /\ s3 = {}
         /\ \A n \in Names : ~local[n].dir /\ ~tmp[n].file

\* Witness of C26: a run with every variable set that ended with status 0
\* after cache_model_to_s3 had fetched, uploaded and returned True.
C26_Witness ==
    /\ main.pc = "exited"
    /\ main.exit = "0"
    /\ CacheReturned("true")
    /\ {"snapshot_download", "upload_file"} \subseteq cur.log
    /\ \A v \in EnvVars : main.env[v] = "set"


\* The prefix of an instance that was built ends in exactly one "/", and
\* normalizing it again gives the same string.
PrefixNormalized ==
    (cur.op = "construct" /\ cur.pc = "done") =>
       LET prefix == cur.value.s3_prefix
       IN /\ Len(prefix) >= 1 /\ prefix[Len(prefix)] = "/"
          /\ Len(prefix) >= 2 => prefix[Len(prefix) - 1] # "/"
          /\ normalize_prefix(prefix) = prefix

DirUploadFailed ==
    /\ cur.op = "cache_model_to_s3"
    /\ ~store_as_archive
    /\ "upload_file" \in cur.failed

\* No upload_file is attempted once one has failed.
NoUploadAfterFailure == UploadDirFile(1) => ~DirUploadFailed

\* Every attempt takes its file off the files still to upload, or ends the
\* loop: no file is attempted twice.
UploadAtMostOnce ==
    UploadDirFile(1) =>
       \/ cur'.pc # "upload_dir"
       \/ \E e \in cur.todo : cur'.todo = cur.todo \ {e}

\* The step by which cache_model_to_s3 returns False after a failed upload
\* is the end of delete_cached_model(model_id, local=True, s3=True), whose
\* rmtree has been made.
CleanupBeforeFailure ==
    (DirUploadFailed /\ cur.pc # "done"
       /\ cur'.pc = "done" /\ cur'.result = "false")
    => /\ cur.pc \in {"delete_s3", "delete_objects"}
       /\ cur.local /\ cur.s3
       /\ "rmtree" \in cur.log

DirDownloadFailed ==
    /\ cur.op = "load_model_from_s3"
    /\ ~store_as_archive
    /\ "download_file" \in cur.failed

\* After the failed download the call ends by returning None.
FailedDownloadReturnsNone ==
    (DirDownloadFailed /\ cur.pc = "done") => cur.result = "none"

\* No download_file is attempted once one has failed.
NoDownloadAfterFailure == DownloadDirFile(1) => ~DirDownloadFailed

\* No step of load_model_from_s3 takes a file out of the local entry or
\* changes the bucket.
NoRollback ==
    cur.op = "load_model_from_s3" =>
       /\ s3' = s3
       /\ local[curName].files \subseteq local'[curName].files

\* C29: in directory mode, once one download_file of load_model_from_s3 has
\* failed, no further download is attempted and the call returns None; the
\* files written before stay in the local entry and the bucket is as it
\* was.
C29_DirDownloadAborts ==
    /\ []FailedDownloadReturnsNone
    /\ [][NoDownloadAfterFailure /\ NoRollback]_vars

\* C29 without the result: what holds of every failed download, whether the
\* call then returns None or ends by the exception.
C29_AbortsWithoutRollback == [][NoDownloadAfterFailure /\ NoRollback]_vars


\* load_model_from_s3(id), called while a directory lies at the local path
\* of id, is a hit: it returns the path and makes no outside call.
PartialIsHit ==
    (Ended("load_model_from_s3") /\ cur.had_local)
    => /\ cur.result = "path"
       /\ cur.log = {}

\* cache_model_to_s3(id) that has missed the fast path and finds a
\* directory at the local path of id goes on to upload the files of that
\* directory, without snapshot_download.
PartialIsUploaded ==
    (/\ cur.op = "cache_model_to_s3" /\ cur.pc = "local"
     /\ local[curName].dir /\ cur' # cur)
    => /\ "snapshot_download" \notin cur'.log
       /\ local' = local
       /\ IF store_as_archive THEN cur'.pc = "compress"
          ELSE cur'.pc = "upload_dir" /\ cur'.todo = local[curName].files

\* C30: as long as a directory lies at the local path of id, as it does
\* after a load_model_from_s3(id) that failed partway and left it behind,
\* every load_model_from_s3(id) returns that path without contacting the
\* store, and every cache_model_to_s3(id) that misses the fast path uploads
\* that directory without invoking the fetcher.
C30_PartialTakenAsCached == []PartialIsHit /\ [][PartialIsUploaded]_vars

\* Witness of C30: load_model_from_s3(id) failed and left a directory that
\* lacks a file of the remote representation; the next call,
\* cache_model_to_s3(id), did not fetch, uploaded and returned True.
C30_Witness ==
    /\ prev.op = "load_model_from_s3"
    /\ prev.result \in {"none", "raise"}
    /\ Ended("cache_model_to_s3")
    /\ prev.model_id = cur.model_id
    /\ cur.had_local
    /\ "upload_file" \in cur.log
    /\ "snapshot_download" \notin cur.log
    /\ cur.result = "true"
    /\ local[curName].files # Artifact(cur.model_id)


\* C31: after _compress_model of a model directory and _extract_model of
\* the archive, the model directory exists again, also when it holds no
\* regular file, and so does every directory below it (for each file, every
\* part of its path that ends before a "/").
C31_DirectoriesRoundTrip ==
    LET DirsOf(files) ==
          UNION {{SubSeq(e.path, 1, k - 1) :
                    k \in {j \in 1..Len(e.path) : e.path[j] = "/"}} : e \in files}
    IN (Ended("compress_and_extract") /\ cur.result = "path")
       => /\ local[curName].dir
          /\ DirsOf(cur.todo) \subseteq DirsOf(local[curName].files)


\* The call of cache_model_to_s3 that ended had got to its upload step:
\* the compression in archive mode, the loop over the files in directory
\* mode (which for an empty directory uploads nothing and sets success).
UploadStepReached ==
    IF store_as_archive THEN "compress" \in cur.log
    ELSE "upload_file" \in cur.log \/ cur.success

SpecKeys ==
    Init /\ [][\E c \in Callers : Call_key_mapper(c) \/ HelperReturn(c)]_vars

\* C33: two different non-empty identifiers get different local paths,
\* different archive keys and different directory prefixes.
C33_CollisionFree ==
    (/\ \A c \in Callers : call[c].op = "key_mapper" /\ call[c].pc = "done"
     /\ call[1].model_id # call[2].model_id)
    => /\ call[1].value.local_path # call[2].value.local_path
       /\ call[1].value.s3_key # call[2].value.s3_key
       /\ call[1].value.dir_prefix # call[2].value.dir_prefix


\* C34: when upload_large_model_to_hcp(cache, id) has put an object at the
\* archive key, the local entry of id exists and the object is the archive
\* of the files the entry holds.
C34_LargeUploadsFresh ==
    (cur.op = "upload_large_model_to_hcp" /\ cur.pc = "finally" /\ cur.success)
    => LET n == get_local_path(cur.model_id)
       IN /\ local[n].dir
          /\ Object(get_s3_key(cur.model_id)).body = Members(n, local[n].files)


\* C35: when load_model_from_s3(id) has returned a path, a local entry
\* exists at the local path of id, in archive mode and in directory mode.
C35_ReturnedPathExists ==
    (Ended("load_model_from_s3") /\ cur.result = "path")
    => local[curName].dir


C37_SuccessSurvives ==
    LET MissedFastPath(c) ==
          /\ call[c].op = "cache_model_to_s3"
          /\ ~call[c].force_upload
          /\ ~(call[c].log \subseteq {ProbeCall})
        SuccessSurvives ==
          (/\ BothReturned
           /\ \A c \in Callers : MissedFastPath(c)
           /\ \E c \in Callers : Uploaded(c))
          => \A c \in Callers : RemoteExists(call[c].model_id)
        ArchiveKept ==
          (\A c \in Callers : call[c].op = "cache_model_to_s3")
          => \A c \in Callers :
                call[c].pc = "uploading"
                => tmp[archive_path(call[c].model_id)].file
    IN SuccessSurvives /\ ArchiveKept


\* The identifier no call is made on, and the three public methods called
\* on the other identifier while the bystander has a local entry and a
\* remote representation.
Bystander == CHOOSE id \in ModelIds : id \notin ActiveIds

InitFrame ==
    /\ root = TRUE
    /\ main = NoMain
    /\ store_as_archive \in BOOLEAN
    /\ local = [n \in Names |-> IF n = get_local_path(Bystander)
                                THEN Dir(Artifact(Bystander)) ELSE NoDir]
    /\ tmp = [n \in Names |-> NoFile]
    /\ s3 = Stored(Bystander)
    /\ call = [c \in Callers |-> Idle]
    /\ prev = NoPrev

SpecFrame == InitFrame /\ [][Next]_vars

\* C38: the calls of cache_model_to_s3, load_model_from_s3 and
\* delete_cached_model on one identifier, failure cleanups included, leave
\* the local entry and the remote objects of an identifier with another
\* sanitized name as they were, in both modes: the bystander keeps its
\* entry and its objects, and when a call on id has ended no path has come
\* to exist (as Path.exists() tells: an entry or an archive lies there)
\* where the local entry of the identifier id + ".tar.gz", on which no call
\* is made, would be.
C38_ConfinedToIdentifier ==
    LET PathExists(path) == \E e \in CacheRootEntries : e.name = path
        ArchiveNamed(model_id) == model_id \o <<".tar.gz">>
    IN /\ local[get_local_path(Bystander)] = Dir(Artifact(Bystander))
       /\ {o \in s3 : o.key \in RemoteKeys(Bystander)} = Stored(Bystander)
       /\ cur.pc = "done"
            => ~PathExists(get_local_path(ArchiveNamed(cur.model_id)))


\* The round trip through the cache: the local entry of the identifier
\* holds a tree F, of which the bystander holds a copy no call touches;
\* cache_model_to_s3(id), then, once it returned True,
\* delete_cached_model(id, local=True, s3=False), then load_model_from_s3(id).
InitRoundTrip ==
    /\ root = TRUE
    /\ main = NoMain
    /\ store_as_archive \in BOOLEAN
    /\ \E F \in Trees : local = [n \in Names |-> Dir(F)]
    /\ tmp = [n \in Names |-> NoFile]
    /\ s3 = {}
    /\ call = [c \in Callers |-> Idle]
    /\ prev = NoPrev

RoundTripStep(c) ==
    \/ prev = NoPrev /\ Call_cache_model_to_s3(c)
    \/ CacheProbe(c)
    \/ Fetch(c)
    \/ Compress(c)
    \/ Upload(c)
    \/ UploadDirFile(c)
    \/ UploadDirDone(c)
    \/ /\ prev.op = "cache_model_to_s3"
       /\ prev.result = "true"
       /\ Call_delete_cached_model(c)
       /\ call'[c].local /\ ~call'[c].s3
    \/ DeleteLocal(c)
    \/ DeleteObject(c)
    \/ DeleteListing(c)
    \/ DeleteObjects(c)
    \/ Unlink(c)
    \/ prev.op = "delete_cached_model" /\ Call_load_model_from_s3(c)
    \/ LoadLocal(c)
    \/ LoadProbe(c)
    \/ Download(c)
    \/ Extract(c)
    \/ DownloadDirList(c)
    \/ DownloadDirFile(c)
    \/ DownloadDirDone(c)
    \/ Return(c)

SpecRoundTrip == InitRoundTrip /\ [][\E c \in SoloCallers : RoundTripStep(c)]_vars

\* C39: after cache_model_to_s3(id) returned True,
\* delete_cached_model(id, local=True, s3=False) removed the entry and
\* load_model_from_s3(id) ran with every transfer succeeding (the entry was
\* gone when it started and none of its calls failed), the load has
\* returned the local path, the entry holds the files it held at the start
\* with the same contents, and list_cached_models("local") and
\* list_cached_models("s3") both hold the sanitized name of id.
C39_RoundTrip ==
    (/\ Ended("load_model_from_s3")
     /\ prev.op = "delete_cached_model"
     /\ ~cur.had_local
     /\ cur.failed = {})
    => /\ cur.result = "path"
       /\ local[curName] = local[get_local_path(Bystander)]
       /\ curName \in DOMAIN list_local
       /\ curName \in DOMAIN list_s3


\* C40: in archive mode the probe is answered "absent" only when no object
\* lies at the archive key, so no unforced cache_model_to_s3(id) goes on
\* from the probe to the check of the local entry, to fetch and upload, and
\* no load_model_from_s3(id) returns None straight after the probe, for an
\* archive that is in the store.
C40_ProbeAbsentOnlyIfAbsent ==
    LET ProbedAbsent ==
          \/ /\ cur.op = "cache_model_to_s3"
             /\ ~cur.force_upload
             /\ cur.pc = "local"
          \/ /\ Ended("load_model_from_s3")
             /\ cur.result = "none"
             /\ cur.log = {ProbeCall}
    IN (store_as_archive /\ ProbedAbsent)
       => get_s3_key(cur.model_id) \notin Keys

=============================================================================
